---- MODULE Spec2Model ----
(***************************************************************************)
(* A model of two scripts of pypsa-earth:                                  *)
(*   - compare_config.py, which flattens two configuration documents and   *)
(*     writes col_diff.csv and config_diff.csv (specification SpecDiff);   *)
(*   - scripts/solve_network.py: __main__ with prepare_network,            *)
(*     solve_network and the callback extra_functionality (specification   *)
(*     Spec), prepare_network statement by statement (specification        *)
(*     SpecPrepare) and the constraint builder add_CCL_constraints         *)
(*     (specification SpecCCL).                                            *)
(***************************************************************************)
EXTENDS Integers, Sequences, FiniteSets, TLC

VARIABLES
    pc,               \* position of the running script
    \* ---- compare_config.py
    first_yaml,       \* content of first_config (a mapping)
    second_yaml,      \* content of second_config (a mapping)
    flex_json,        \* first.json as loaded, NoDoc before
    rigid_json,       \* second.json as loaded, NoDoc before
    df_first_config,  \* one-row frame: sequence of columns [name, val]
    df_second_config,
    col_diff,         \* set of column names
    df_compare,       \* result of DataFrame.compare: sequence of [name, self, other]
    files,            \* the csv files written so far: function name -> content
    exc,              \* the exception that ended the script, "" if none
    \* ---- scripts/solve_network.py: the inputs of a run
    wildcard_opts,    \* snakemake.wildcards.opts
    opts,             \* __main__'s opts, the split wildcard
    cf_solving,       \* solving["options"], a mapping
    operational_reserve, \* config["electricity"].get("operational_reserve"), a mapping
    agg_p_nom_limits, \* config["electricity"].get("agg_p_nom_limits") and the file behind it
    generators,       \* n.generators: sequence of [carrier, country, p_nom_extendable, vres]
    lines_ext,        \* n.lines.s_nom_extendable.any()
    battery_bus,      \* some bus has carrier "battery"
    input_nc,         \* the network stored in snakemake.input[0]
    n,                \* the network in memory: the tables prepare_network works on
    \* ---- scripts/solve_network.py: the state of a run
    n_config,         \* whether n.config is attached
    kwargs,           \* solve_network's kwargs, a mapping
    skip_iterations,
    status,
    condition,
    solver,           \* the external solve in progress: [fn, rounds]
    calls,            \* the external calls made by solve_network, in order
    log,              \* the logger's records, in order
    model,            \* n.model of the latest build: [vars, cons, ops]
    ccl               \* the frame of a call of add_CCL_constraints

diffVars == <<first_yaml, second_yaml, flex_json, rigid_json, df_first_config,
              df_second_config, col_diff, df_compare, files>>

runInputs == <<wildcard_opts, opts, cf_solving, operational_reserve, agg_p_nom_limits,
               generators, lines_ext, battery_bus, input_nc, n>>

solveVars == <<n_config, kwargs, skip_iterations, status, condition, solver, calls, log, model>>

vars == <<pc, exc, diffVars, runInputs, solveVars, ccl>>

(***************************************************************************)
(* Bounds of the configuration documents.                                  *)
(***************************************************************************)
\* most scalar settings (leaves) of one document
MaxLeaves == 2

TopKeys == {"a", "c"}
InnerKeys == {"b", "c"}
Scalars == {1, 2}

----------------------------------------------------------------------------
(***************************************************************************)
(* Documents.  A mapping is the sequence of its items in file order; an    *)
(* item is [key, val]; a value is a scalar or a nested mapping.            *)
(***************************************************************************)
SVal(s) == [isDict |-> FALSE, s |-> s, items |-> <<>>]
DVal(m) == [isDict |-> TRUE, s |-> 0, items |-> m]
Item(k, v) == [key |-> k, val |-> v]

\* the sequences of distinct keys
KeySeqs(keys) ==
    UNION { { ks \in [1..m -> keys] : \A i, j \in 1..m : i # j => ks[i] # ks[j] }
            : m \in 0..Cardinality(keys) }

MappingsOver(keys, values) ==
    UNION { { [i \in 1..Len(ks) |-> Item(ks[i], vs[i])] : vs \in [1..Len(ks) -> values] }
            : ks \in KeySeqs(keys) }

RECURSIVE Leaves(_)
Leaves(m) ==
    IF m = <<>> THEN 0
    ELSE (IF Head(m).val.isDict THEN Leaves(Head(m).val.items) ELSE 1) + Leaves(Tail(m))

InnerDocs == { m \in MappingsOver(InnerKeys, { SVal(s) : s \in Scalars }) : Leaves(m) <= MaxLeaves }
Docs ==
    { m \in MappingsOver(TopKeys, { SVal(s) : s \in Scalars } \cup { DVal(i) : i \in InnerDocs }) :
        Leaves(m) <= MaxLeaves }

NoDoc == <<Item("", SVal(0))>>
NoFrame == <<[name |-> "", val |-> [isna |-> TRUE, v |-> 0]]>>

----------------------------------------------------------------------------
(***************************************************************************)
(* json.dump followed by json.load: every mapping is written and read back *)
(* item by item, in order; keys are strings and scalars integers, which    *)
(* JSON carries unchanged.                                                 *)
(***************************************************************************)
RECURSIVE JsonRoundTrip(_)
JsonRoundTrip(m) ==
    IF m = <<>> THEN <<>>
    ELSE LET e == Head(m)
             v == IF e.val.isDict THEN DVal(JsonRoundTrip(e.val.items))
                  ELSE SVal(e.val.s)
         IN <<Item(e.key, v)>> \o JsonRoundTrip(Tail(m))

(***************************************************************************)
(* pandas.json_normalize(doc, sep="+") of one mapping: a frame of one row. *)
(***************************************************************************)
\* a separator other than the one the script passes
sep_dot == "."

sep == "+"
Cell(s) == [isna |-> FALSE, v |-> s]
NaN == [isna |-> TRUE, v |-> 0]
Col(name, c) == [name |-> name, val |-> c]

\* pandas _normalise_json: depth first, in item order
RECURSIVE normalise_json(_, _)
normalise_json(m, key_string) ==
    IF m = <<>> THEN <<>>
    ELSE LET e == Head(m)
             new_key == IF key_string = "" THEN e.key
                        ELSE key_string \o sep \o e.key
             here == IF e.val.isDict THEN normalise_json(e.val.items, new_key)
                     ELSE <<Col(new_key, Cell(e.val.s))>>
         IN here \o normalise_json(Tail(m), key_string)

\* top-level scalars first, then the flattened nested mappings
json_normalize(doc) ==
    LET top_dict == SelectSeq(doc, LAMBDA e : ~e.val.isDict)
        nested_dict == SelectSeq(doc, LAMBDA e : e.val.isDict)
    IN normalise_json(top_dict, "") \o normalise_json(nested_dict, "")

columns(df) == [i \in 1..Len(df) |-> df[i].name]
ColumnSet(df) == { df[i].name : i \in 1..Len(df) }

\* the columns of one frame only
one_sided_difference(s, t) == s \ t

symmetric_difference(s, t) == (s \ t) \cup (t \ s)

\* DataFrame.drop(labels, axis=1)
drop(df, labels) == SelectSeq(df, LAMBDA c : c.name \notin labels)

\* code points of the characters of a column name
CharRank(c) ==
    CASE c = "+" -> 43 [] c = "a" -> 97 [] c = "b" -> 98 [] c = "c" -> 99 [] OTHER -> 128

RECURSIVE StrLess(_, _)
StrLess(s, t) ==
    IF t = "" THEN FALSE
    ELSE IF s = "" THEN TRUE
    ELSE LET cs == CharRank(SubSeq(s, 1, 1))
             ct == CharRank(SubSeq(t, 1, 1))
         IN IF cs # ct THEN cs < ct
            ELSE StrLess(SubSeq(s, 2, Len(s)), SubSeq(t, 2, Len(t)))

RECURSIVE Insert(_, _)
Insert(x, sortedSeq) ==
    IF sortedSeq = <<>> THEN <<x>>
    ELSE IF StrLess(Head(sortedSeq), x) THEN <<Head(sortedSeq)>> \o Insert(x, Tail(sortedSeq))
    ELSE <<x>> \o sortedSeq

\* sorted(names)
RECURSIVE sorted(_)
sorted(names) ==
    IF names = <<>> THEN <<>> ELSE Insert(Head(names), sorted(Tail(names)))

\* DataFrame.reindex(names, axis=1): a label the frame lacks gets NaN
reindex(df, names) ==
    [i \in 1..Len(names) |->
        IF names[i] \in ColumnSet(df)
        THEN Col(names[i], (CHOOSE c \in { df[j] : j \in 1..Len(df) } : c.name = names[i]).val)
        ELSE Col(names[i], NaN)]

\* DataFrame.compare needs identically labelled frames
CanCompare(self, other) == columns(self) = columns(other)

\* a comparison that keeps the equal columns too
compare_keep_equal(self, other) ==
    [k \in 1..Len(self) |->
        [name |-> self[k].name, self |-> self[k].val, other |-> other[k].val]]

\* DataFrame.compare(other): the columns whose cells differ, NaN equal to NaN
compare(self, other) ==
    LET differs(i) == /\ self[i].val # other[i].val
                      /\ ~(self[i].val.isna /\ other[i].val.isna)
        idx == SelectSeq([i \in 1..Len(self) |-> i], differs)
    IN [k \in 1..Len(idx) |->
           [name |-> self[idx[k]].name, self |-> self[idx[k]].val, other |-> other[idx[k]].val]]

NoFiles == [f \in {} |-> <<>>]
WriteFile(fs, name, content) ==
    [f \in DOMAIN fs \cup {name} |-> IF f = name THEN content ELSE fs[f]]

----------------------------------------------------------------------------
(***************************************************************************)
(* scripts/solve_network.py: the values a run works on.                    *)
(***************************************************************************)
\* most builds of the linear program within one external solve
MaxRounds == 2
\* most generators of the network
MaxGens == 2

\* dict.get(key, default)
Get(d, key, default) == IF key \in DOMAIN d THEN d[key] ELSE default

EmptyDict == [k \in {} |-> 0]

\* a keyword argument: the value itself, or the value wrapped in a 1-tuple
Scalar(x) == [tuple |-> FALSE, v |-> x]
Tuple1(x) == [tuple |-> TRUE, v |-> x]

\* x in text, for two strings
StrContains(text, x) ==
    \E i \in 1..(Len(text) - Len(x) + 1) : SubSeq(text, i, i + Len(x) - 1) = x

\* str.split(d)
RECURSIVE SplitAcc(_, _, _)
SplitAcc(rest, cur, d) ==
    IF rest = "" THEN <<cur>>
    ELSE IF SubSeq(rest, 1, 1) = d THEN <<cur>> \o SplitAcc(SubSeq(rest, 2, Len(rest)), "", d)
    ELSE SplitAcc(SubSeq(rest, 2, Len(rest)), cur \o SubSeq(rest, 1, 1), d)
split(text, d) == SplitAcc(text, "", d)

Range(f) == { f[i] : i \in DOMAIN f }

Gen(carrier, country, ext, vres) ==
    [carrier |-> carrier, country |-> country, p_nom_extendable |-> ext, vres |-> vres]

Carriers == {"solar", "OCGT"}
Countries == {"NG", "BJ"}

\* n.generators.p_nom_extendable.any()
AnyExtendable(gens) == \E i \in 1..Len(gens) : gens[i].p_nom_extendable

\* the aggregate capacity limits: no path configured, a path without a file, or
\* a csv file, read as (country, carrier) -> [min, max]
Opt(x) == [isna |-> FALSE, v |-> x]
NoLimit == [isna |-> TRUE, v |-> 0]
Unset == [kind |-> "unset", table |-> EmptyDict]
Missing == [kind |-> "missing", table |-> EmptyDict]
CsvFile(t) == [kind |-> "file", table |-> t]
LimitTables ==
    { (<<"NG", "solar">> :> [min |-> Opt(1), max |-> Opt(5)])
        @@ (<<"BJ", "OCGT">> :> [min |-> NoLimit, max |-> Opt(3)]),
      (<<"NG", "OCGT">> :> [min |-> Opt(2), max |-> NoLimit]) }
LimitInputs == {Unset, Missing} \cup { CsvFile(t) : t \in LimitTables }

\* the variables pypsa defines before it calls extra_functionality
BaseModelVars(gens, battery) ==
    {"Generator-p"}
      \cup (IF AnyExtendable(gens) THEN {"Generator-p_nom"} ELSE {})
      \cup (IF battery THEN {"Link-p_nom"} ELSE {})

Ev(op, arg) == [op |-> op, arg |-> arg]
LogRec(level, msg) == [level |-> level, msg |-> msg]

\* n.model when a builder starts, with the trace of what the builders do
NewModel(gens, battery) ==
    [vars |-> BaseModelVars(gens, battery), cons |-> {}, ops |-> <<>>, log |-> <<>>, exc |-> ""]

\* n.model[name]
GetVar(m, name) ==
    IF m.exc # "" THEN m
    ELSE IF name \in m.vars THEN [m EXCEPT !.ops = Append(@, Ev("get", name))]
    ELSE [m EXCEPT !.ops = Append(@, Ev("get", name)), !.exc = "KeyError"]

\* n.model.add_variables(..., name=name)
AddVariables(m, name) ==
    IF m.exc # "" THEN m
    ELSE [m EXCEPT !.vars = @ \cup {name}, !.ops = Append(@, Ev("add_variables", name))]

\* n.model.add_constraints(..., name=name)
AddConstraints(m, name) ==
    IF m.exc # "" THEN m
    ELSE [m EXCEPT !.cons = @ \cup {name}, !.ops = Append(@, Ev("add_constraints", name))]

Enter(m, fn) == IF m.exc # "" THEN m ELSE [m EXCEPT !.ops = Append(@, Ev("call", fn))]
Raise(m, e) == IF m.exc # "" THEN m ELSE [m EXCEPT !.ops = Append(@, Ev("raise", e)), !.exc = e]


----------------------------------------------------------------------------
(***************************************************************************)
(* add_CCL_constraints, one statement at a time.  A frame holds the        *)
(* position, n.model with the trace, and the locals.                       *)
(***************************************************************************)
RECURSIVE Unique(_)
Unique(q) ==
    IF q = <<>> THEN <<>>
    ELSE <<Head(q)>> \o Unique(SelectSeq(Tail(q), LAMBDA x : x # Head(q)))

\* n.generators.query("p_nom_extendable").carrier.unique()
ext_carriers(gens) ==
    LET ext == SelectSeq(gens, LAMBDA g : g.p_nom_extendable)
    IN Unique([i \in 1..Len(ext) |-> ext[i].carrier])

\* lines 165-178: per carrier, the extendable capacities summed per country
CCL_lhs(gens) ==
    LET ext_i == { i \in 1..Len(gens) : gens[i].p_nom_extendable }
    IN [c \in Range(ext_carriers(gens)) |->
          [k \in { gens[i].country : i \in ext_i } |->
              { i \in ext_i : gens[i].carrier = c /\ gens[i].country = k }]]

\* agg_p_nom_minmax[column].to_xarray().unstack().reindex_like(lhs)
ReindexLike(table, column, lhs) ==
    [c \in DOMAIN lhs |->
        [k \in DOMAIN lhs[c] |->
            IF <<k, c>> \in DOMAIN table
            THEN (IF column = "min" THEN table[<<k, c>>].min ELSE table[<<k, c>>].max)
            ELSE NoLimit]]

\* the rows of a constraint registered with mask=matrix.notnull()
MaskedRows(lhs, matrix) ==
    UNION { { [carrier |-> c, country |-> k, gens |-> lhs[c][k], rhs |-> matrix[c][k].v]
                : k \in { x \in DOMAIN lhs[c] : ~matrix[c][x].isna } }
            : c \in DOMAIN lhs }

CCLFrame(m) ==
    [at |-> "read_csv", m |-> Enter(m, "add_CCL_constraints"), bound |-> FALSE,
     agg_p_nom_minmax |-> EmptyDict, lhs |-> EmptyDict, min_matrix |-> EmptyDict,
     max_matrix |-> EmptyDict, rows |-> EmptyDict]

CCLFinished(f) == f.at \in {"returned", "raised"}

Step(m, name) == [m EXCEPT !.ops = Append(@, Ev("step", name))]

\* an except clause that passes the exception on
CCLExceptReraise(f) ==
    [f EXCEPT !.m = Raise([f.m EXCEPT !.log = Append(@, LogRec("exception", "Need to specify the path")),
                                       !.ops = Append(@, Ev("step", "logger.exception"))], "IOError"),
              !.at = "raised"]

\* lines 152-157: the except clause logs and falls through
CCLExcept(f) ==
    [f EXCEPT !.m = [f.m EXCEPT !.log = Append(@, LogRec("exception", "Need to specify the path")),
                                 !.ops = Append(@, Ev("step", "logger.exception"))],
              !.at = "logger.info"]

CCLStep(f, limits, gens) ==
    CASE f.at = "read_csv" ->
            \* line 151: a missing file raises FileNotFoundError, an IOError;
            \* a path of None raises ValueError, which the except clause does not catch
            LET m1 == Step(f.m, "read_csv")
            IN IF limits.kind = "file"
               THEN [f EXCEPT !.m = m1, !.bound = TRUE, !.agg_p_nom_minmax = limits.table,
                              !.at = "logger.info"]
               ELSE IF limits.kind = "missing"
               THEN [f EXCEPT !.m = m1, !.at = "except IOError"]
               ELSE [f EXCEPT !.m = Raise(m1, "ValueError"), !.at = "raised"]
      [] f.at = "except IOError" -> CCLExcept(f)
      [] f.at = "logger.info" ->
            \* lines 158-160
            [f EXCEPT !.m = [f.m EXCEPT !.log = Append(@, LogRec("info", "Adding per carrier generation capacity constraints")),
                                         !.ops = Append(@, Ev("step", "logger.info"))],
                      !.at = "gen_country"]
      [] f.at = "gen_country" ->
            \* line 162
            [f EXCEPT !.m = Step(f.m, "gen_country"), !.at = "capacity_variable"]
      [] f.at = "capacity_variable" ->
            \* line 163
            LET m1 == GetVar(f.m, "Generator-p_nom")
            IN [f EXCEPT !.m = m1, !.at = IF m1.exc # "" THEN "raised" ELSE "lhs"]
      [] f.at = "lhs" ->
            \* lines 165-178
            [f EXCEPT !.m = Step(f.m, "lhs"), !.lhs = CCL_lhs(gens), !.at = "min_matrix"]
      [] f.at = "min_matrix" ->
            \* line 180: the first use of agg_p_nom_minmax
            IF f.bound
            THEN [f EXCEPT !.m = Step(f.m, "min_matrix"),
                           !.min_matrix = ReindexLike(f.agg_p_nom_minmax, "min", f.lhs),
                           !.at = "max_matrix"]
            ELSE [f EXCEPT !.m = Raise(f.m, "UnboundLocalError"), !.at = "raised"]
      [] f.at = "max_matrix" ->
            \* line 181
            [f EXCEPT !.m = Step(f.m, "max_matrix"),
                      !.max_matrix = ReindexLike(f.agg_p_nom_minmax, "max", f.lhs),
                      !.at = "agg_p_nom_min"]
      [] f.at = "agg_p_nom_min" ->
            \* lines 183-185
            [f EXCEPT !.m = AddConstraints(f.m, "agg_p_nom_min"),
                      !.rows = ("agg_p_nom_min" :> MaskedRows(f.lhs, f.min_matrix)) @@ @,
                      !.at = "agg_p_nom_max"]
      [] f.at = "agg_p_nom_max" ->
            \* lines 186-188
            [f EXCEPT !.m = AddConstraints(f.m, "agg_p_nom_max"),
                      !.rows = ("agg_p_nom_max" :> MaskedRows(f.lhs, f.max_matrix)) @@ @,
                      !.at = "returned"]
      [] OTHER -> f

RECURSIVE CCLRun(_, _, _)
CCLRun(f, limits, gens) ==
    IF CCLFinished(f) THEN f ELSE CCLRun(CCLStep(f, limits, gens), limits, gens)

\* the whole call, as extra_functionality makes it
add_CCL_constraints(m, limits, gens) ==
    IF m.exc # "" THEN m ELSE CCLRun(CCLFrame(m), limits, gens).m

----------------------------------------------------------------------------
(***************************************************************************)
(* The other builders extra_functionality calls.                           *)
(***************************************************************************)
\* lines 231-254: after bau_mincaps, line 247 reads the unbound name ext_c
add_BAU_constraints(m) ==
    Raise(AddConstraints(GetVar(Enter(m, "add_BAU_constraints"), "Generator-p_nom"),
                         "bau_mincaps"),
          "NameError")

\* lines 257-270
add_SAFE_constraints(m) ==
    AddConstraints(GetVar(Enter(m, "add_SAFE_constraints"), "Generator-p_nom"),
                   "safe_mintotalcap")

\* lines 273-315
add_operational_reserve_margin_constraint(m, gens) ==
    LET m1 == AddVariables(Enter(m, "add_operational_reserve_margin_constraint"), "Generator-r")
        m2 == GetVar(m1, "Generator-r")
        ext_i == { i \in 1..Len(gens) : gens[i].p_nom_extendable }
        vres_i == { i \in 1..Len(gens) : gens[i].vres }
        m3 == IF ext_i # {} /\ vres_i # {} THEN GetVar(m2, "Generator-p_nom") ELSE m2
    IN AddConstraints(m3, "reserve_margin")

\* lines 318-343
update_capacity_constraint(m, gens) ==
    LET m1 == GetVar(GetVar(Enter(m, "update_capacity_constraint"), "Generator-p"), "Generator-r")
        m2 == IF AnyExtendable(gens) THEN GetVar(m1, "Generator-p_nom") ELSE m1
    IN AddConstraints(m2, "gen_updated_capacity_constraint")

\* the two builders called in the other order
add_operational_reserve_margin_swapped(m, gens) ==
    add_operational_reserve_margin_constraint(
        update_capacity_constraint(Enter(m, "add_operational_reserve_margin"), gens),
        gens)

\* lines 346-355
add_operational_reserve_margin(m, gens) ==
    update_capacity_constraint(
        add_operational_reserve_margin_constraint(Enter(m, "add_operational_reserve_margin"), gens),
        gens)

\* lines 358-370
add_battery_constraints(m, battery) ==
    LET m1 == Enter(m, "add_battery_constraints")
    IN IF ~battery THEN m1
       ELSE AddConstraints(GetVar(m1, "Link-p_nom"), "link_charger_ratio")

\* line 500: the opts extra_functionality tests
extra_functionality_opts == ""

\* lines 492-518
extra_functionality(m, limits, reserve_cf, gens, battery) ==
    LET ext == AnyExtendable(gens)
        m1 == IF StrContains(extra_functionality_opts, "BAU") /\ ext
              THEN add_BAU_constraints(m) ELSE m
        m2 == IF StrContains(extra_functionality_opts, "SAFE") /\ ext
              THEN add_SAFE_constraints(m1) ELSE m1
        m3 == IF StrContains(extra_functionality_opts, "CCL") /\ ext
              THEN add_CCL_constraints(m2, limits, gens) ELSE m2
        m4 == IF Get(reserve_cf, "activate", FALSE)
              THEN add_operational_reserve_margin(m3, gens) ELSE m3
    IN add_battery_constraints(m4, battery)


----------------------------------------------------------------------------
(***************************************************************************)
(* prepare_network(n, solve_opts, config).  The network is the record of   *)
(* the tables the function works on: the snapshots with their weightings,  *)
(* the time series generators_t.p_max_pu and storage_units_t.inflow (one   *)
(* row per snapshot, one entry per column), the carriers, the names of the *)
(* AC buses, the one-port components that carry a marginal_cost, and the   *)
(* lines and links.  Costs are integers in units of 1e-5 EUR.              *)
(***************************************************************************)
\* most snapshots of a network
MaxSnapshots == 2

NoNetwork ==
    [snapshots |-> <<>>, snapshot_weightings |-> <<>>, p_max_pu |-> <<>>, inflow |-> <<>>,
     carriers |-> {}, ac_buses |-> <<>>, one_port |-> <<>>, branches |-> <<>>,
     meta |-> EmptyDict]

\* a value of the load_shedding setting: a number (True counts as 1), or a
\* list, which np.isscalar rejects; None is falsy like 0
Number(x) == [scalar |-> TRUE, v |-> x]
NonScalar(x) == [scalar |-> FALSE, v |-> x]
None == Number(0)

\* the comparison not strict
where_ge(df, t, other) ==
    [s \in DOMAIN df |-> [c \in DOMAIN df[s] |-> IF df[s][c] >= t THEN df[s][c] ELSE other]]

\* line 101: df.where(df > t, other=other, inplace=True)
where(df, t, other) ==
    [s \in DOMAIN df |-> [c \in DOMAIN df[s] |-> IF df[s][c] > t THEN df[s][c] ELSE other]]

\* lines 99-101
clip_p_max_pu(net, solve_opts) ==
    IF "clip_p_max_pu" \in DOMAIN solve_opts
    THEN [net EXCEPT !.p_max_pu = where(@, solve_opts["clip_p_max_pu"], 0),
                     !.inflow = where(@, solve_opts["clip_p_max_pu"], 0)]
    ELSE net

\* line 107: 8e3 EUR
load_shedding_default == 800000000

\* lines 103-122: one generator " load" per AC bus, appended to n.generators
add_load_shedding(net, solve_opts) ==
    LET load_shedding == Get(solve_opts, "load_shedding", None)
        marginal_cost == IF load_shedding.scalar THEN load_shedding.v
                         ELSE load_shedding_default
    IN IF load_shedding.v = 0 THEN net
       ELSE [net EXCEPT
                !.carriers = @ \cup {"Load"},
                !.one_port = @ \o [i \in 1..Len(net.ac_buses) |->
                                      [name |-> net.ac_buses[i] \o " load",
                                       carrier |-> "load",
                                       marginal_cost |-> marginal_cost]]]

\* 100 * (np.random.random() - 0.5) lies in [-50, 50)
NoiseDraws == {-50, 49}

\* the draws of np.random.random(len(t.df)), one per row
RandomDraws(net) ==
    [marginal_cost : [1..Len(net.one_port) -> NoiseDraws],
     capital_cost : [1..Len(net.branches) -> NoiseDraws]]

\* lines 131-133, one row: marginal_cost += 1e-2 + 2e-3 * (r - 0.5)
noisy_marginal_cost(row, d) == [row EXCEPT !.marginal_cost = @ + 1000 + 2 * d]

\* lines 135-137, one row: capital_cost += (1e-1 + 2e-2 * (r - 0.5)) * length
noisy_capital_cost(row, d) == [row EXCEPT !.capital_cost = @ + (10000 + 20 * d) * row.length]

\* lines 124-137
add_noisy_costs(net, solve_opts, random) ==
    IF Get(solve_opts, "noisy_costs", FALSE)
    THEN [net EXCEPT
             !.one_port = [i \in 1..Len(net.one_port) |->
                              noisy_marginal_cost(net.one_port[i], random.marginal_cost[i])],
             !.branches = [i \in 1..Len(net.branches) |->
                              noisy_capital_cost(net.branches[i], random.capital_cost[i])]]
    ELSE net

\* line 142: the hours of a year
hours_per_year == 8760

\* q[:k]
Slice(q, k) == SubSeq(q, 1, IF k < Len(q) THEN k ELSE Len(q))

\* lines 139-142: set_snapshots cuts every time series to the snapshots kept;
\* the settings of nhours used here divide 8760
set_nhours(net, solve_opts) ==
    LET nhours == Get(solve_opts, "nhours", 0)
    IN IF nhours = 0 THEN net
       ELSE [net EXCEPT
                !.snapshots = Slice(@, nhours),
                !.p_max_pu = Slice(@, nhours),
                !.inflow = Slice(@, nhours),
                !.snapshot_weightings =
                    [i \in 1..Len(Slice(net.snapshots, nhours)) |-> hours_per_year \div nhours]]

\* the network when line 124 is reached
BeforeNoise(net, solve_opts) == add_load_shedding(clip_p_max_pu(net, solve_opts), solve_opts)

\* lines 98-144
prepare_network(net, solve_opts, random) ==
    set_nhours(add_noisy_costs(BeforeNoise(net, solve_opts), solve_opts, random), solve_opts)

\* a stored network of T snapshots with the time series p and f
Network(T, p, f) ==
    [snapshots |-> [i \in 1..T |-> i],
     snapshot_weightings |-> [i \in 1..T |-> 1],
     p_max_pu |-> p,
     inflow |-> f,
     carriers |-> {"AC", "OCGT"},
     ac_buses |-> << "NG0" >>,
     one_port |-> << [name |-> "NG0 OCGT", carrier |-> "OCGT", marginal_cost |-> 5000000] >>,
     branches |-> << [name |-> "L1", capital_cost |-> 0, length |-> 2] >>,
     meta |-> EmptyDict]


NoSolver == [fn |-> "", rounds |-> 0, ret |-> ""]
NoModel == [vars |-> {}, cons |-> {}, ops |-> <<>>, log |-> <<>>, exc |-> ""]
NoFrame_ccl == [at |-> "", m |-> NoModel, bound |-> FALSE, agg_p_nom_minmax |-> EmptyDict,
                lhs |-> EmptyDict, min_matrix |-> EmptyDict, max_matrix |-> EmptyDict,
                rows |-> EmptyDict]

\* the state of a run before solve_network is entered
RunNotStarted ==
    /\ n_config = FALSE
    /\ kwargs = EmptyDict
    /\ skip_iterations = FALSE
    /\ status = ""
    /\ condition = ""
    /\ solver = NoSolver
    /\ calls = <<>>
    /\ log = <<>>
    /\ model = NoModel

\* no run of solve_network.py at all
NoRun ==
    /\ wildcard_opts = ""
    /\ opts = <<>>
    /\ cf_solving = EmptyDict
    /\ operational_reserve = EmptyDict
    /\ agg_p_nom_limits = Unset
    /\ generators = <<>>
    /\ lines_ext = FALSE
    /\ battery_bus = FALSE
    /\ input_nc = NoNetwork
    /\ n = NoNetwork
    /\ RunNotStarted
    /\ ccl = NoFrame_ccl

NoDiff ==
    /\ first_yaml = <<>>
    /\ second_yaml = <<>>
    /\ flex_json = NoDoc
    /\ rigid_json = NoDoc
    /\ df_first_config = NoFrame
    /\ df_second_config = NoFrame
    /\ col_diff = {}
    /\ df_compare = <<>>
    /\ files = NoFiles

----------------------------------------------------------------------------
(***************************************************************************)
(* compare_config.py, statement by statement.                              *)
(***************************************************************************)
InitDiff ==
    /\ pc = "dump"
    /\ exc = ""
    /\ first_yaml \in Docs
    /\ second_yaml \in Docs
    /\ flex_json = NoDoc
    /\ rigid_json = NoDoc
    /\ df_first_config = NoFrame
    /\ df_second_config = NoFrame
    /\ col_diff = {}
    /\ df_compare = <<>>
    /\ files = NoFiles
    /\ NoRun

\* lines 36-47: both yaml files go through first.json / second.json
LoadConfigs ==
    /\ pc = "dump"
    /\ flex_json' = JsonRoundTrip(first_yaml)
    /\ rigid_json' = JsonRoundTrip(second_yaml)
    /\ files' = WriteFile(WriteFile(files, "first.json", first_yaml), "second.json", second_yaml)
    /\ pc' = "normalize"
    /\ UNCHANGED <<runInputs, solveVars, ccl>>
    /\ UNCHANGED <<exc, first_yaml, second_yaml, df_first_config, df_second_config,
                   col_diff, df_compare>>

\* lines 49-50
Normalize ==
    /\ pc = "normalize"
    /\ df_second_config' = json_normalize(rigid_json)
    /\ df_first_config' = json_normalize(flex_json)
    /\ pc' = "col_diff"
    /\ UNCHANGED <<runInputs, solveVars, ccl>>
    /\ UNCHANGED <<exc, first_yaml, second_yaml, flex_json, rigid_json, col_diff,
                   df_compare, files>>

\* line 52
ColDiff ==
    /\ pc = "col_diff"
    /\ col_diff' = symmetric_difference(ColumnSet(df_second_config), ColumnSet(df_first_config))
    /\ pc' = "branch"
    /\ UNCHANGED <<runInputs, solveVars, ccl>>
    /\ UNCHANGED <<exc, first_yaml, second_yaml, flex_json, rigid_json, df_first_config,
                   df_second_config, df_compare, files>>

\* lines 60-65: both frames are cut out of df_second_config
df_first_config2 ==
    reindex(drop(df_second_config, ColumnSet(df_second_config) \ ColumnSet(df_first_config)),
            sorted(columns(df_second_config)))
df_second_config2 ==
    reindex(drop(df_second_config, ColumnSet(df_second_config) \ ColumnSet(df_first_config)),
            sorted(columns(df_second_config)))

\* lines 54-66: the column names differ
CompareWithColDiff ==
    /\ pc = "branch"
    /\ Cardinality(col_diff) > 0
    /\ files' = WriteFile(files, "col_diff.csv", col_diff)
    /\ IF CanCompare(df_second_config2, df_first_config2)
       THEN /\ df_compare' = compare(df_second_config2, df_first_config2)
            /\ pc' = "write"
            /\ exc' = exc
       ELSE /\ df_compare' = df_compare
            /\ pc' = "failed"
            /\ exc' = "ValueError"
    /\ UNCHANGED <<runInputs, solveVars, ccl>>
    /\ UNCHANGED <<first_yaml, second_yaml, flex_json, rigid_json, df_first_config,
                   df_second_config, col_diff>>

\* lines 67-68: the column names agree as sets
CompareSameColumns ==
    /\ pc = "branch"
    /\ Cardinality(col_diff) = 0
    /\ IF CanCompare(df_second_config, df_first_config)
       THEN /\ df_compare' = compare(df_second_config, df_first_config)
            /\ pc' = "write"
            /\ exc' = exc
       ELSE /\ df_compare' = df_compare
            /\ pc' = "failed"
            /\ exc' = "ValueError"
    /\ UNCHANGED <<runInputs, solveVars, ccl>>
    /\ UNCHANGED <<first_yaml, second_yaml, flex_json, rigid_json, df_first_config,
                   df_second_config, col_diff, files>>

\* lines 70-72
WriteConfigDiff ==
    /\ pc = "write"
    /\ files' = WriteFile(files, "config_diff.csv", df_compare)
    /\ pc' = "done"
    /\ UNCHANGED <<runInputs, solveVars, ccl>>
    /\ UNCHANGED <<exc, first_yaml, second_yaml, flex_json, rigid_json, df_first_config,
                   df_second_config, col_diff, df_compare>>

NextDiff ==
    \/ LoadConfigs
    \/ Normalize
    \/ ColDiff
    \/ CompareWithColDiff
    \/ CompareSameColumns
    \/ WriteConfigDiff

SpecDiff == InitDiff /\ [][NextDiff]_vars

----------------------------------------------------------------------------
(***************************************************************************)
(* scripts/solve_network.py: __main__, which reads the network, calls      *)
(* prepare_network and solve_network(n, config, solving, **kwargs) and      *)
(* exports the network, with the external solve as the environment.        *)
(***************************************************************************)
Wildcards == {"Co2L-1H", "Co2L-BAU-1H", "SAFE-CCL", "Co2L-BAU-SAFE-CCL-24H"}

CfSolvingChoices ==
    { EmptyDict,
      ("skip_iterations" :> TRUE) @@ ("clip_p_max_pu" :> 1),
      ("skip_iterations" :> FALSE) @@ ("track_iterations" :> TRUE)
          @@ ("min_iterations" :> 1) @@ ("max_iterations" :> 2)
          @@ ("load_shedding" :> Number(100000)) @@ ("nhours" :> 1),
      ("max_iterations" :> 3) @@ ("noisy_costs" :> TRUE) }

\* the networks snakemake.input[0] may hold
RunNetworks == { Network(2, << <<2>>, <<1>> >>, << <<0>>, <<2>> >>) }

OperationalReserveChoices == { EmptyDict, ("activate" :> TRUE), ("activate" :> FALSE) }

RunGenerators ==
    { <<>>,
      << Gen("OCGT", "NG", FALSE, FALSE) >>,
      << Gen("solar", "NG", TRUE, TRUE), Gen("OCGT", "BJ", FALSE, FALSE) >> }

Statuses == {"ok", "warning", "unknown"}
Conditions == {"optimal", "suboptimal", "infeasible", "infeasible_or_unbounded"}

min_iterations_default == 4
max_iterations_default == 6

\* lines 572-588: the state in which __main__ starts its work
Init ==
    /\ pc = "main"
    /\ exc = ""
    /\ NoDiff
    /\ wildcard_opts \in Wildcards
    /\ opts = <<>>
    /\ cf_solving \in CfSolvingChoices
    /\ operational_reserve \in OperationalReserveChoices
    /\ agg_p_nom_limits \in LimitInputs
    /\ generators \in RunGenerators
    /\ lines_ext \in BOOLEAN
    /\ battery_bus \in BOOLEAN
    /\ input_nc \in RunNetworks
    /\ n = NoNetwork
    /\ RunNotStarted
    /\ ccl = NoFrame_ccl

Call(fn, kw) == [fn |-> fn, kwargs |-> kw]

\* lines 589-590: solve_opts is solving["options"], the mapping cf_solving
SplitOpts ==
    /\ pc = "main"
    /\ opts' = split(wildcard_opts, "-")
    /\ pc' = "read"
    /\ UNCHANGED <<exc, diffVars, wildcard_opts, cf_solving, operational_reserve,
                   agg_p_nom_limits, generators, lines_ext, battery_bus, input_nc, n,
                   solveVars, ccl>>

\* line 592
ReadNetwork ==
    /\ pc = "read"
    /\ n' = input_nc
    /\ calls' = Append(calls, Call("pypsa.Network", EmptyDict))
    /\ pc' = "prepare"
    /\ UNCHANGED <<exc, diffVars, wildcard_opts, opts, cf_solving, operational_reserve,
                   agg_p_nom_limits, generators, lines_ext, battery_bus, input_nc,
                   n_config, kwargs, skip_iterations, status, condition, solver, log,
                   model, ccl>>

\* line 598
PrepareNetwork ==
    /\ pc = "prepare"
    /\ \E random \in RandomDraws(BeforeNoise(n, cf_solving)) :
          n' = prepare_network(n, cf_solving, random)
    /\ pc' = "kwargs"
    /\ UNCHANGED <<exc, diffVars, wildcard_opts, opts, cf_solving, operational_reserve,
                   agg_p_nom_limits, generators, lines_ext, battery_bus, input_nc,
                   solveVars, ccl>>

\* lines 522-538
SetKwargs ==
    /\ pc = "kwargs"
    /\ kwargs' = ("solver_logfile" :> Scalar("snakemake.log.solver"))
                   @@ ("solver_options" :> Scalar("solver_options"))
                   @@ ("solver_name" :> Scalar("solver_name"))
                   @@ ("extra_functionality" :> Scalar("extra_functionality"))
                   @@ ("transmission_losses" :> Scalar(Get(cf_solving, "transmission_losses", FALSE)))
                   @@ ("linearized_unit_commitment" :>
                          Scalar(Get(cf_solving, "linearized_unit_commitment", FALSE)))
                   @@ ("assign_all_duals" :> Scalar(Get(cf_solving, "assign_all_duals", FALSE)))
                   @@ ("io_api" :> Scalar(Get(cf_solving, "io_api", "None")))
    /\ n_config' = TRUE
    /\ pc' = "skip_iterations"
    /\ UNCHANGED <<exc, diffVars, runInputs, skip_iterations, status, condition, solver,
                   calls, log, model, ccl>>

\* lines 540-543
SetSkipIterations ==
    /\ pc = "skip_iterations"
    /\ IF ~lines_ext
       THEN /\ skip_iterations' = TRUE
            /\ log' = Append(log, LogRec("info", "No expandable lines found. Skipping iterative solving."))
       ELSE /\ skip_iterations' = Get(cf_solving, "skip_iterations", FALSE)
            /\ log' = log
    /\ pc' = "first_solve"
    /\ UNCHANGED <<exc, diffVars, runInputs, n_config, kwargs, status, condition, solver,
                   calls, model, ccl>>

Iterative == "optimize_transmission_expansion_iteratively"

\* line 547
FirstIterativeSolve ==
    /\ pc = "first_solve"
    /\ calls' = Append(calls, Call(Iterative, kwargs))
    /\ solver' = [fn |-> Iterative, rounds |-> 0, ret |-> "branch"]
    /\ pc' = "solving"
    /\ UNCHANGED <<exc, diffVars, runInputs, n_config, kwargs, skip_iterations, status,
                   condition, log, model, ccl>>

\* lines 549-550
PlainSolve ==
    /\ pc = "branch"
    /\ skip_iterations
    /\ calls' = Append(calls, Call("optimize", kwargs))
    /\ solver' = [fn |-> "optimize", rounds |-> 0, ret |-> "check_status"]
    /\ pc' = "solving"
    /\ UNCHANGED <<exc, diffVars, runInputs, n_config, kwargs, skip_iterations, status,
                   condition, log, model, ccl>>

\* lines 552-554: each right-hand side ends in a comma
IterationKwargs(kw, cf) ==
    ("track_iterations" :> Tuple1(Get(cf, "track_iterations", FALSE)))
      @@ ("min_iterations" :> Tuple1(Get(cf, "min_iterations", min_iterations_default)))
      @@ ("max_iterations" :> Tuple1(Get(cf, "max_iterations", max_iterations_default)))
      @@ kw

\* lines 551-557
SecondIterativeSolve ==
    /\ pc = "branch"
    /\ ~skip_iterations
    /\ kwargs' = IterationKwargs(kwargs, cf_solving)
    /\ calls' = Append(calls, Call(Iterative, kwargs'))
    /\ solver' = [fn |-> Iterative, rounds |-> 0, ret |-> "check_status"]
    /\ pc' = "solving"
    /\ UNCHANGED <<exc, diffVars, runInputs, n_config, skip_iterations, status, condition,
                   log, model, ccl>>

\* the builds one external solve makes: one for optimize, some for the iteration
RoundsOf(fn) == IF fn = "optimize" THEN 1 ELSE MaxRounds

\* the external solve builds n.model and calls kwargs["extra_functionality"]
ExtraFunctionality ==
    /\ pc = "solving"
    /\ solver.rounds < RoundsOf(solver.fn)
    /\ n_config
    /\ LET m == extra_functionality(NewModel(generators, battery_bus), agg_p_nom_limits,
                                    operational_reserve, generators, battery_bus)
       IN /\ model' = m
          /\ log' = log \o m.log
          /\ exc' = m.exc
          /\ pc' = IF m.exc # "" THEN "propagated" ELSE pc
    /\ solver' = [solver EXCEPT !.rounds = @ + 1]
    /\ UNCHANGED <<diffVars, runInputs, n_config, kwargs, skip_iterations, status, condition,
                   calls, ccl>>

\* the external solve returns status and termination condition
SolveReturns ==
    /\ pc = "solving"
    /\ solver.rounds >= 1
    /\ \E st \in Statuses, cond \in Conditions :
          /\ status' = st
          /\ condition' = cond
    /\ pc' = solver.ret
    /\ solver' = NoSolver
    /\ UNCHANGED <<exc, diffVars, runInputs, n_config, kwargs, skip_iterations, calls, log,
                   model, ccl>>

\* the status test the other way round
StatusNotOk_inverted(st) == st = "ok"

\* line 559
StatusNotOk(st) == st # "ok"

\* the condition compared as a whole
IsInfeasible_exact(cond) == cond = "infeasible"

\* line 563
IsInfeasible(cond) == StrContains(cond, "infeasible")

\* lines 559-562
CheckStatus ==
    /\ pc = "check_status"
    /\ log' = IF StatusNotOk(status)
              THEN Append(log, LogRec("warning", <<"Solving status", status,
                                                   "with termination condition", condition>>))
              ELSE log
    /\ pc' = "check_infeasible"
    /\ UNCHANGED <<exc, diffVars, runInputs, n_config, kwargs, skip_iterations, status,
                   condition, solver, calls, model, ccl>>

\* lines 563-567
RaiseInfeasible ==
    /\ pc = "check_infeasible"
    /\ IsInfeasible(condition)
    /\ calls' = calls \o << Call("compute_infeasibilities", EmptyDict),
                            Call("print_infeasibilities", EmptyDict) >>
    /\ log' = Append(log, LogRec("info", "Labels"))
    /\ exc' = "RuntimeError"
    /\ pc' = "raised"
    /\ UNCHANGED <<diffVars, runInputs, n_config, kwargs, skip_iterations, status, condition,
                   solver, model, ccl>>

\* line 569
ReturnNetwork ==
    /\ pc = "check_infeasible"
    /\ ~IsInfeasible(condition)
    /\ pc' = "returned"
    /\ UNCHANGED <<exc, diffVars, runInputs, solveVars, ccl>>

\* __main__ goes on after an exception of solve_network
main_continues_after_raise(at) == at \in {"returned", "raised"}

\* lines 599-605: the statement after the call runs when solve_network returned
main_continues(at) == at = "returned"

\* line 605
SetMeta ==
    /\ main_continues(pc)
    /\ n' = [n EXCEPT !.meta = ("wildcards" :> ("opts" :> wildcard_opts))
                                 @@ ("operational_reserve" :> operational_reserve)]
    /\ pc' = "export"
    /\ UNCHANGED <<exc, diffVars, wildcard_opts, opts, cf_solving, operational_reserve,
                   agg_p_nom_limits, generators, lines_ext, battery_bus, input_nc,
                   solveVars, ccl>>

\* line 606
ExportNetwork ==
    /\ pc = "export"
    /\ files' = WriteFile(files, "snakemake.output[0]", n)
    /\ calls' = Append(calls, Call("export_to_netcdf", EmptyDict))
    /\ pc' = "exported"
    /\ UNCHANGED <<exc, first_yaml, second_yaml, flex_json, rigid_json, df_first_config,
                   df_second_config, col_diff, df_compare, runInputs, n_config, kwargs,
                   skip_iterations, status, condition, solver, log, model, ccl>>

Next ==
    \/ SplitOpts
    \/ ReadNetwork
    \/ PrepareNetwork
    \/ SetKwargs
    \/ SetSkipIterations
    \/ FirstIterativeSolve
    \/ PlainSolve
    \/ SecondIterativeSolve
    \/ ExtraFunctionality
    \/ SolveReturns
    \/ CheckStatus
    \/ RaiseInfeasible
    \/ ReturnNetwork
    \/ SetMeta
    \/ ExportNetwork

Spec == Init /\ [][Next]_vars

----------------------------------------------------------------------------
(***************************************************************************)
(* add_CCL_constraints(n, config) called on a network whose model pypsa    *)
(* has built.                                                              *)
(***************************************************************************)
GenSeqs ==
    UNION { [1..m -> { Gen(c, k, e, FALSE) : c \in Carriers, k \in Countries, e \in BOOLEAN }]
            : m \in 0..MaxGens }

InitCCL ==
    /\ pc = "ccl"
    /\ exc = ""
    /\ NoDiff
    /\ wildcard_opts = ""
    /\ opts = <<>>
    /\ cf_solving = EmptyDict
    /\ operational_reserve = EmptyDict
    /\ agg_p_nom_limits \in LimitInputs
    /\ generators \in GenSeqs
    /\ lines_ext = FALSE
    /\ battery_bus = FALSE
    /\ input_nc = NoNetwork
    /\ n = NoNetwork
    /\ RunNotStarted
    /\ ccl = CCLFrame(NewModel(generators, battery_bus))

\* the next statement of add_CCL_constraints
CCLStatement ==
    /\ pc = "ccl"
    /\ ~CCLFinished(ccl)
    /\ ccl' = CCLStep(ccl, agg_p_nom_limits, generators)
    /\ UNCHANGED <<pc, exc, diffVars, runInputs, solveVars>>

\* the call ends: it returns, or its exception reaches the caller
CCLExit ==
    /\ pc = "ccl"
    /\ CCLFinished(ccl)
    /\ pc' = ccl.at
    /\ exc' = ccl.m.exc
    /\ log' = log \o ccl.m.log
    /\ model' = ccl.m
    /\ UNCHANGED <<diffVars, runInputs, n_config, kwargs, skip_iterations, status, condition,
                   solver, calls, ccl>>

NextCCL == CCLStatement \/ CCLExit

SpecCCL == InitCCL /\ [][NextCCL]_vars

----------------------------------------------------------------------------
(***************************************************************************)
(* prepare_network(n, solve_opts) called on a network just read, one block *)
(* of the function at a time.  input_nc keeps the network as it was read.  *)
(***************************************************************************)
\* the entries of the time series and the thresholds, in the same unit
PuValues == {0, 1, 2}
Thresholds == {0, 1}

\* a mapping with or without the key
OptionalKey(key, values) == { EmptyDict } \cup { key :> v : v \in values }

SolveOptsChoices ==
    { a @@ b @@ c @@ d :
        a \in OptionalKey("clip_p_max_pu", Thresholds),
        b \in OptionalKey("load_shedding", {Number(100000), NonScalar(1)}),
        c \in OptionalKey("noisy_costs", {TRUE}),
        d \in OptionalKey("nhours", {1, 2}) }

PrepareNetworks ==
    UNION { { Network(T, p, f) : p \in [1..T -> [1..1 -> PuValues]],
                                 f \in [1..T -> [1..1 -> PuValues]] }
            : T \in 1..MaxSnapshots }

InitPrepare ==
    /\ pc = "clip"
    /\ exc = ""
    /\ NoDiff
    /\ wildcard_opts = ""
    /\ opts = <<>>
    /\ cf_solving \in SolveOptsChoices
    /\ operational_reserve = EmptyDict
    /\ agg_p_nom_limits = Unset
    /\ generators = <<>>
    /\ lines_ext = FALSE
    /\ battery_bus = FALSE
    /\ input_nc \in PrepareNetworks
    /\ n = input_nc
    /\ RunNotStarted
    /\ ccl = NoFrame_ccl

\* lines 99-101
ClipPMaxPu ==
    /\ pc = "clip"
    /\ n' = clip_p_max_pu(n, cf_solving)
    /\ pc' = "load_shedding"
    /\ UNCHANGED <<exc, diffVars, wildcard_opts, opts, cf_solving, operational_reserve,
                   agg_p_nom_limits, generators, lines_ext, battery_bus, input_nc,
                   solveVars, ccl>>

\* lines 103-122
AddLoadShedding ==
    /\ pc = "load_shedding"
    /\ n' = add_load_shedding(n, cf_solving)
    /\ pc' = "noisy_costs"
    /\ UNCHANGED <<exc, diffVars, wildcard_opts, opts, cf_solving, operational_reserve,
                   agg_p_nom_limits, generators, lines_ext, battery_bus, input_nc,
                   solveVars, ccl>>

\* lines 124-137
AddNoisyCosts ==
    /\ pc = "noisy_costs"
    /\ \E random \in RandomDraws(n) : n' = add_noisy_costs(n, cf_solving, random)
    /\ pc' = "nhours"
    /\ UNCHANGED <<exc, diffVars, wildcard_opts, opts, cf_solving, operational_reserve,
                   agg_p_nom_limits, generators, lines_ext, battery_bus, input_nc,
                   solveVars, ccl>>

\* lines 139-144
SetNHours ==
    /\ pc = "nhours"
    /\ n' = set_nhours(n, cf_solving)
    /\ pc' = "prepared"
    /\ UNCHANGED <<exc, diffVars, wildcard_opts, opts, cf_solving, operational_reserve,
                   agg_p_nom_limits, generators, lines_ext, battery_bus, input_nc,
                   solveVars, ccl>>

NextPrepare ==
    \/ ClipPMaxPu
    \/ AddLoadShedding
    \/ AddNoisyCosts
    \/ SetNHours

SpecPrepare == InitPrepare /\ [][NextPrepare]_vars

----------------------------------------------------------------------------
(***************************************************************************)
(* Properties of compare_config.py (checked under SpecDiff).               *)
(***************************************************************************)
AfterColDiff == {"branch", "write", "done", "failed"}
ColDiffCsvWritten == "col_diff.csv" \in DOMAIN files
ConfigDiffCsv == files["config_diff.csv"]
ReportNames == { ConfigDiffCsv[r].name : r \in 1..Len(ConfigDiffCsv) }

\* C1: when the script has finished, config_diff.csv holds, for every flattened
\* key common to both documents whose values differ, a row with that key, the
\* second document's value and the first document's value.
C1_ReportListsCommonDifferences ==
    pc = "done" =>
        LET F1 == json_normalize(first_yaml)
            F2 == json_normalize(second_yaml)
        IN \A i \in 1..Len(F1), j \in 1..Len(F2) :
              (F1[i].name = F2[j].name /\ F1[i].val # F2[j].val) =>
                  \E r \in 1..Len(ConfigDiffCsv) :
                      ConfigDiffCsv[r] =
                          [name |-> F1[i].name, self |-> F2[j].val, other |-> F1[i].val]

\* the places <<i, j>> of a nested scalar that is the only difference of A and B
NestedScalarDiffs(A, B) ==
    { p \in (1..Len(A)) \X (1..2) :
        /\ Len(A) = Len(B)
        /\ \A k \in 1..Len(A) : k # p[1] => A[k] = B[k]
        /\ A[p[1]].key = B[p[1]].key
        /\ A[p[1]].val.isDict /\ B[p[1]].val.isDict
        /\ LET X == A[p[1]].val.items
               Y == B[p[1]].val.items
           IN /\ Len(X) = Len(Y)
              /\ p[2] \in 1..Len(X)
              /\ \A l \in 1..Len(X) : l # p[2] => X[l] = Y[l]
              /\ X[p[2]].key = Y[p[2]].key
              /\ ~X[p[2]].val.isDict /\ ~Y[p[2]].val.isDict
              /\ X[p[2]].val.s # Y[p[2]].val.s }

\* C2: two documents that differ only in one nested scalar: the script does not
\* fail, the column difference is empty and col_diff.csv is not written, and
\* config_diff.csv holds exactly one row, named by the '+'-joined keys of that
\* scalar, with the value of the second and of the first document.
C2_NestedScalarReported ==
    \A p \in NestedScalarDiffs(first_yaml, second_yaml) :
        LET a == first_yaml[p[1]]
            x == a.val.items[p[2]]
            y == second_yaml[p[1]].val.items[p[2]]
        IN /\ pc # "failed"
           /\ ~ColDiffCsvWritten
           /\ pc \in AfterColDiff => col_diff = {}
           /\ pc = "done" =>
                ConfigDiffCsv = << [name |-> a.key \o "+" \o x.key,
                                    self |-> Cell(y.val.s), other |-> Cell(x.val.s)] >>

\* the example of the claim: A = {a: {b: 1}}, B = {a: {b: 2}}
C2_Witness ==
    /\ pc = "done"
    /\ first_yaml = << Item("a", DVal(<< Item("b", SVal(1)) >>)) >>
    /\ second_yaml = << Item("a", DVal(<< Item("b", SVal(2)) >>)) >>
    /\ col_diff = {}
    /\ ConfigDiffCsv = << [name |-> "a+b", self |-> Cell(2), other |-> Cell(1)] >>

\* the items of A whose top-level key B lacks
ExtraTopItems(A, B) ==
    { A[i] : i \in { k \in 1..Len(A) : \A l \in 1..Len(B) : B[l].key # A[k].key } }

\* C3: a top-level key that only one of the two documents has (either one):
\* its flattened names (the key itself when its value is a scalar) are in the
\* column difference, which is written to col_diff.csv, and no row of
\* config_diff.csv has such a name.
C3_ExtraTopKeyInColDiff ==
    \A e \in ExtraTopItems(first_yaml, second_yaml) \cup ExtraTopItems(second_yaml, first_yaml) :
        LET names == ColumnSet(json_normalize(<<e>>))
        IN /\ ~e.val.isDict => names = {e.key}
           /\ pc \in AfterColDiff => names \subseteq col_diff
           /\ names # {} => pc # "failed"
           /\ (pc \in {"write", "done"} /\ names # {}) =>
                 (ColDiffCsvWritten /\ names \subseteq files["col_diff.csv"])
           /\ pc = "done" => ReportNames \cap names = {}

\* the example of the claim, with the extra key in the first document
C3_Witness ==
    /\ pc = "done"
    /\ first_yaml = << Item("a", SVal(1)), Item("c", SVal(2)) >>
    /\ second_yaml = << Item("a", SVal(1)) >>
    /\ files["col_diff.csv"] = {"c"}
    /\ ConfigDiffCsv = <<>>

\* C4: two identical documents: the script does not fail, the column difference
\* is empty, col_diff.csv is never written and config_diff.csv is empty.
C4_IdenticalDocuments ==
    first_yaml = second_yaml =>
        /\ pc # "failed"
        /\ ~ColDiffCsvWritten
        /\ pc \in AfterColDiff => col_diff = {}
        /\ pc = "done" => ConfigDiffCsv = <<>>

C4_Witness ==
    /\ pc = "done"
    /\ first_yaml = second_yaml
    /\ Leaves(first_yaml) = 2
    /\ \E i \in 1..Len(first_yaml) : first_yaml[i].val.isDict
    /\ ConfigDiffCsv = <<>>

----------------------------------------------------------------------------
(***************************************************************************)
(* Properties of solve_network (checked under Spec).                       *)
(***************************************************************************)
SolveCalls == SelectSeq(calls, LAMBDA c : c.fn \in {Iterative, "optimize"})
DiagnosticCalls ==
    SelectSeq(calls, LAMBDA c : c.fn \in {"compute_infeasibilities", "print_infeasibilities"})
Warnings == SelectSeq(log, LAMBDA r : r.level = "warning")

\* C5: when solve_network ends, it has raised exactly if the termination
\* condition the solve returned contains 'infeasible'; when it raises, the
\* exception is RuntimeError and its last two external calls are
\* compute_infeasibilities and then print_infeasibilities; on every other path
\* no exception is set and no diagnostics are requested.
C5_InfeasibleRaises ==
    /\ pc \in {"returned", "raised"} =>
          (pc = "raised" <=> StrContains(condition, "infeasible"))
    /\ pc = "raised" =>
          /\ exc = "RuntimeError"
          /\ Len(calls) >= 2
          /\ calls[Len(calls) - 1].fn = "compute_infeasibilities"
          /\ calls[Len(calls)].fn = "print_infeasibilities"
          /\ Len(DiagnosticCalls) = 2
    /\ pc # "raised" => (exc = "" /\ DiagnosticCalls = <<>>)

C5_Witness ==
    /\ pc = "raised"
    /\ exc = "RuntimeError"
    /\ status = "warning"
    /\ condition = "infeasible_or_unbounded"
    /\ Len(DiagnosticCalls) = 2

\* C6: once the status has been examined, a status other than 'ok' with a
\* condition that does not contain 'infeasible' has logged exactly one warning,
\* naming status and condition, and solve_network does not raise: it returns.
C6_NonOkWarnsAndReturns ==
    (/\ pc \in {"check_infeasible", "returned", "raised"}
     /\ status # "ok"
     /\ ~StrContains(condition, "infeasible")) =>
        /\ pc # "raised"
        /\ exc = ""
        /\ Warnings = << LogRec("warning", <<"Solving status", status,
                                              "with termination condition", condition>>) >>

C6_Witness ==
    /\ pc = "returned"
    /\ status = "unknown"
    /\ condition = "suboptimal"
    /\ Len(Warnings) = 1
    /\ exc = ""

\* C7: when solve_network ends it has made exactly one external solve call:
\* optimize when skip_iterations is configured true or no line is extendable,
\* otherwise the iterative solve.
C7_ExactlyOneSolve ==
    pc \in {"returned", "raised"} =>
        /\ Len(SolveCalls) = 1
        /\ \A i \in 1..Len(SolveCalls) :
              SolveCalls[i].fn =
                 IF Get(cf_solving, "skip_iterations", FALSE) \/ ~lines_ext
                 THEN "optimize" ELSE Iterative

\* C8: every call of the iterative solve is given min_iterations and
\* max_iterations as the scalar configured values (4 and 6 when absent) and
\* track_iterations as the scalar configured flag (false when absent).
C8_IterationBoundsFromConfig ==
    \A i \in 1..Len(calls) :
        calls[i].fn = Iterative =>
            LET kw == calls[i].kwargs
            IN /\ {"min_iterations", "max_iterations", "track_iterations"} \subseteq DOMAIN kw
               /\ kw["min_iterations"] = Scalar(Get(cf_solving, "min_iterations", 4))
               /\ kw["max_iterations"] = Scalar(Get(cf_solving, "max_iterations", 6))
               /\ kw["track_iterations"] = Scalar(Get(cf_solving, "track_iterations", FALSE))

BuilderOf(flag) ==
    CASE flag = "BAU" -> "add_BAU_constraints"
      [] flag = "SAFE" -> "add_SAFE_constraints"
      [] flag = "CCL" -> "add_CCL_constraints"

\* C9: after a run of extra_functionality, each of the builders of BAU, SAFE
\* and CCL has been called exactly if its flag is among the run's opts (the
\* wildcard split at '-') and some generator is p_nom_extendable.
C9_FlagsSelectBuilders ==
    model.ops # <<>> =>
        \A flag \in {"BAU", "SAFE", "CCL"} :
            (Ev("call", BuilderOf(flag)) \in Range(model.ops))
               <=> (flag \in Range(opts) /\ AnyExtendable(generators))

Reads == SelectSeq(calls, LAMBDA c : c.fn = "pypsa.Network")
Exports == SelectSeq(calls, LAMBDA c : c.fn = "export_to_netcdf")
OutputWritten == "snakemake.output[0]" \in DOMAIN files
BeforeSolveNetwork == {"main", "read", "prepare"}

\* C11: the run reads the input network first and once; whenever an external
\* solve has been invoked, prepare_network has completed: the network in
\* memory is the input network as prepare_network leaves it; the output file
\* is written at most once, as the last step, only after solve_network has
\* returned without exception, and it holds the network in memory; a run whose
\* solve condition contains 'infeasible', or that ended with an exception,
\* has written no output file.
C11_MainSequence ==
    /\ (n = NoNetwork) <=> (pc \in {"main", "read"})
    /\ calls # <<>> => (calls[1].fn = "pypsa.Network" /\ Len(Reads) = 1)
    /\ pc \notin BeforeSolveNetwork =>
          \E random \in RandomDraws(BeforeNoise(input_nc, cf_solving)) :
              [n EXCEPT !.meta = EmptyDict] = prepare_network(input_nc, cf_solving, random)
    /\ SolveCalls # <<>> => pc \notin BeforeSolveNetwork
    /\ Len(Exports) <= 1
    /\ OutputWritten <=> Len(Exports) = 1
    /\ OutputWritten =>
          /\ pc = "exported"
          /\ calls[Len(calls)].fn = "export_to_netcdf"
          /\ SolveCalls # <<>>
          /\ solver = NoSolver
          /\ status # ""
          /\ ~StrContains(condition, "infeasible")
          /\ exc = ""
          /\ files["snakemake.output[0]"] = n
    /\ DOMAIN files \subseteq {"snakemake.output[0]"}
    /\ (exc # "" \/ pc = "raised") => ~OutputWritten

C11_Witness ==
    /\ pc = "exported"
    /\ OutputWritten
    /\ Len(SolveCalls) = 2
    /\ status = "warning"
    /\ condition = "suboptimal"
    /\ "clip_p_max_pu" \in DOMAIN cf_solving
    /\ files["snakemake.output[0]"].p_max_pu = << <<2>>, <<0>> >>

\* the positions of an event in a trace
Positions(ops, e) == { i \in 1..Len(ops) : ops[i] = e }
ReserveEvents ==
    { Ev("add_variables", "Generator-r"),
      Ev("get", "Generator-r"),
      Ev("add_constraints", "reserve_margin"),
      Ev("add_constraints", "gen_updated_capacity_constraint") }

\* C12: after a run of extra_functionality no exception is pending and
\*  - if operational_reserve.activate is truthy, the variable Generator-r, the
\*    constraint reserve_margin and the constraint gen_updated_capacity_constraint
\*    have each been added exactly once, in this order, and every read of
\*    Generator-r comes after the variable was added;
\*  - if operational_reserve is absent or activate is falsy, none of the three
\*    has been added and Generator-r is never read;
\*  - in both cases add_battery_constraints has been called once, after all of
\*    these, and link_charger_ratio is registered only if some bus has carrier
\*    'battery' (and then after that call).
C12_OperationalReserve ==
    model.ops # <<>> =>
        LET ops == model.ops
            var_r == Positions(ops, Ev("add_variables", "Generator-r"))
            margin == Positions(ops, Ev("add_constraints", "reserve_margin"))
            capacity == Positions(ops, Ev("add_constraints", "gen_updated_capacity_constraint"))
            battery == Positions(ops, Ev("call", "add_battery_constraints"))
            charger == Positions(ops, Ev("add_constraints", "link_charger_ratio"))
        IN /\ model.exc = ""
           /\ IF Get(operational_reserve, "activate", FALSE)
              THEN /\ Cardinality(var_r) = 1
                   /\ Cardinality(margin) = 1
                   /\ Cardinality(capacity) = 1
                   /\ \A i \in var_r, j \in margin, k \in capacity : i < j /\ j < k
                   /\ \A i \in var_r, j \in Positions(ops, Ev("get", "Generator-r")) : i < j
                   /\ Positions(ops, Ev("get", "Generator-r")) # {}
                   /\ "Generator-r" \in model.vars
                   /\ {"reserve_margin", "gen_updated_capacity_constraint"} \subseteq model.cons
              ELSE /\ \A i \in 1..Len(ops) : ops[i] \notin ReserveEvents
                   /\ "Generator-r" \notin model.vars
                   /\ model.cons \cap {"reserve_margin", "gen_updated_capacity_constraint"} = {}
           /\ Cardinality(battery) = 1
           /\ \A b \in battery, i \in 1..Len(ops) : ops[i] \in ReserveEvents => i < b
           /\ \A b \in battery, c \in charger : b < c
           /\ ("link_charger_ratio" \in model.cons) => battery_bus
           /\ ("link_charger_ratio" \in model.cons) <=> (charger # {})

C12_Witness ==
    /\ Get(operational_reserve, "activate", FALSE)
    /\ battery_bus
    /\ AnyExtendable(generators)
    /\ model.exc = ""
    /\ {"reserve_margin", "gen_updated_capacity_constraint", "link_charger_ratio"}
          \subseteq model.cons
    /\ model.ops[Len(model.ops)] = Ev("add_constraints", "link_charger_ratio")

\* a run without the reserve on a network without battery bus
C12_WitnessInactive ==
    /\ "activate" \in DOMAIN operational_reserve
    /\ ~operational_reserve["activate"]
    /\ ~battery_bus
    /\ model.ops = << Ev("call", "add_battery_constraints") >>

----------------------------------------------------------------------------
(***************************************************************************)
(* Properties of add_CCL_constraints (checked under SpecCCL).              *)
(***************************************************************************)
CCLSteps == { e.arg : e \in { x \in Range(ccl.m.ops) : x.op = "step" } }
CCLLogged == \E r \in Range(ccl.m.log) : r.level = "exception"
LaterSteps == {"logger.info", "gen_country", "lhs", "min_matrix", "max_matrix"}

\* C10 as claimed: when the limits file cannot be read (missing or unset) and
\* the call has ended, it has ended with the read's I/O exception, the failure
\* is logged, no constraint is registered and no statement after the read and
\* the logging has run.
C10_ReadFailurePropagates ==
    (agg_p_nom_limits.kind \in {"missing", "unset"} /\ CCLFinished(ccl)) =>
        /\ ccl.at = "raised"
        /\ ccl.m.exc = "IOError"
        /\ CCLLogged
        /\ ccl.m.cons = {}
        /\ CCLSteps \cap LaterSteps = {}
        /\ \A e \in Range(ccl.m.ops) : e.op # "get"

\* C10 as amended: when the limits file cannot be read, no constraint is ever
\* registered and the call never returns normally.  A missing file: the IOError
\* is logged once and not passed on; the statements after the try block run,
\* and the call ends with KeyError at the lookup of Generator-p_nom when no
\* generator is extendable, otherwise with UnboundLocalError at the first use
\* of agg_p_nom_minmax, after the lhs has been built.  An unset path: the read
\* raises ValueError, which is passed on unlogged with no later statement run.
C10_ReadFailureOutcome ==
    agg_p_nom_limits.kind \in {"missing", "unset"} =>
        /\ ccl.m.cons = {}
        /\ ccl.rows = EmptyDict
        /\ pc # "returned"
        /\ ccl.m.exc # "IOError"
        /\ (agg_p_nom_limits.kind = "missing" /\ CCLFinished(ccl)) =>
              /\ ccl.at = "raised"
              /\ Len(SelectSeq(ccl.m.log, LAMBDA r : r.level = "exception")) = 1
              /\ {"logger.info", "gen_country"} \subseteq CCLSteps
              /\ Ev("get", "Generator-p_nom") \in Range(ccl.m.ops)
              /\ IF AnyExtendable(generators)
                 THEN ccl.m.exc = "UnboundLocalError" /\ "lhs" \in CCLSteps
                 ELSE ccl.m.exc = "KeyError"
              /\ CCLSteps \cap {"min_matrix", "max_matrix"} = {}
        /\ (agg_p_nom_limits.kind = "unset" /\ CCLFinished(ccl)) =>
              /\ ccl.at = "raised"
              /\ ccl.m.exc = "ValueError"
              /\ ccl.m.log = <<>>
              /\ CCLSteps = {"read_csv"}
        /\ pc = "raised" => exc = ccl.m.exc

C10_Witness ==
    /\ pc = "raised"
    /\ agg_p_nom_limits.kind = "missing"
    /\ exc = "UnboundLocalError"
    /\ CCLLogged
    /\ "lhs" \in CCLSteps
    /\ ccl.m.cons = {}

----------------------------------------------------------------------------
(***************************************************************************)
(* Properties of prepare_network (checked under SpecPrepare).              *)
(***************************************************************************)
\* every entry of the table after is the entry before at the same snapshot
\* and column, clipped when the key is set
EntriesClipped(before, after) ==
    /\ Len(after) <= Len(before)
    /\ \A s \in 1..Len(after) :
          /\ DOMAIN after[s] = DOMAIN before[s]
          /\ \A c \in DOMAIN after[s] :
                IF "clip_p_max_pu" \in DOMAIN cf_solving
                THEN /\ before[s][c] > cf_solving["clip_p_max_pu"] => after[s][c] = before[s][c]
                     /\ before[s][c] <= cf_solving["clip_p_max_pu"] => after[s][c] = 0
                ELSE after[s][c] = before[s][c]

\* C13: from the clipping step on, and when prepare_network has returned,
\* every entry of generators_t.p_max_pu and of storage_units_t.inflow equals
\* the entry read if solve_opts has no key clip_p_max_pu; with the key and
\* threshold t it is the entry read where that was strictly greater than t
\* and 0 where it was less than or equal to t.  Up to the nhours step both
\* tables keep every snapshot, afterwards they hold the snapshots kept; without
\* the key the clipping step changes nothing at all.
C13_Clipping ==
    /\ pc # "clip" =>
          /\ EntriesClipped(input_nc.p_max_pu, n.p_max_pu)
          /\ EntriesClipped(input_nc.inflow, n.inflow)
          /\ Len(n.p_max_pu) = Len(n.snapshots)
          /\ Len(n.inflow) = Len(n.snapshots)
    /\ pc \in {"load_shedding", "noisy_costs", "nhours"} =>
          n.snapshots = input_nc.snapshots
    /\ (pc = "load_shedding" /\ "clip_p_max_pu" \notin DOMAIN cf_solving) => n = input_nc
    /\ pc = "prepared" =>
          \E random \in RandomDraws(BeforeNoise(input_nc, cf_solving)) :
              n = prepare_network(input_nc, cf_solving, random)

C13_Witness ==
    /\ pc = "prepared"
    /\ "clip_p_max_pu" \in DOMAIN cf_solving
    /\ cf_solving["clip_p_max_pu"] = 1
    /\ input_nc.p_max_pu = << <<2>>, <<1>> >>
    /\ n.p_max_pu = << <<2>>, <<0>> >>
    /\ input_nc.inflow = << <<1>>, <<2>> >>
    /\ n.inflow = << <<0>>, <<2>> >>

\* without the key, a run that changes other tables leaves both series alone
C13_WitnessAbsent ==
    /\ pc = "prepared"
    /\ "clip_p_max_pu" \notin DOMAIN cf_solving
    /\ "noisy_costs" \in DOMAIN cf_solving
    /\ input_nc.p_max_pu = << <<0>>, <<1>> >>
    /\ n.p_max_pu = input_nc.p_max_pu
    /\ n.inflow = input_nc.inflow
    /\ n # input_nc

====
